---- MODULE Spec2Model ----
(***************************************************************************)
(* A model of nltk/data.py: resource URL normalization, the search-path    *)
(* resolver find(), the path pointers, the open-on-demand zip file and the *)
(* resource cache of load().                                               *)
(*                                                                         *)
(* Strings are sequences of tokens.  A token is one of the characters the  *)
(* code inspects ("/", ".", ":", "\\") or a word of letters that no        *)
(* operation of the code splits ("a", "zip", "nltk", ...); adjacent words  *)
(* concatenate, so <<"a", ".", "zip", "b">> is the string 'a.zipb'.        *)
(* The platform is POSIX (sys.platform does not start with 'win',          *)
(* os.path.sep is '/'); no string holds '%', so url2pathname changes none. *)
(***************************************************************************)
EXTENDS Integers, Sequences, FiniteSets, TLC

VARIABLES raw, url, calls, fs, path, last, cache, zfiles, ptrs

vars == <<raw, url, calls, fs, path, last, cache, zfiles, ptrs>>

\* ------------------------------------------------------------ bounds
\* longest raw resource url (in tokens) given to normalize_resource_url
MaxLen == 4
\* calls of normalize_resource_url on one url
MaxCalls == 2
\* longest search path (nltk.data.path), in roots
MaxRoots == 3

\* ------------------------------------------------------------ strings
SL == "/"
DOT == "."
COL == ":"
BSL == "\\"

\* os.getcwd(), the directory relative file names are resolved against
Cwd == <<SL, "cwd">>

StartsWith(s, p) == Len(s) >= Len(p) /\ SubSeq(s, 1, Len(p)) = p

EndsWith(s, p) == Len(s) >= Len(p) /\ SubSeq(s, Len(s) - Len(p) + 1, Len(s)) = p

\* str.lstrip(c)
RECURSIVE LStrip(_, _)
LStrip(s, c) == IF s # <<>> /\ Head(s) = c THEN LStrip(Tail(s), c) ELSE s

\* str.split(c): always at least one piece
RECURSIVE Split(_, _)
Split(s, c) ==
  IF \A i \in 1..Len(s) : s[i] # c THEN <<s>>
  ELSE LET k == CHOOSE i \in 1..Len(s) : s[i] = c /\ \A j \in 1..(i - 1) : s[j] # c
       IN <<SubSeq(s, 1, k - 1)>> \o Split(SubSeq(s, k + 1, Len(s)), c)

\* c.join(pieces)
RECURSIVE JoinWith(_, _)
JoinWith(pieces, c) ==
  IF pieces = <<>> THEN <<>>
  ELSE IF Len(pieces) = 1 THEN pieces[1]
  ELSE pieces[1] \o <<c>> \o JoinWith(Tail(pieces), c)

\* str.replace(a, b) for single characters
Replace(s, a, b) == [i \in 1..Len(s) |-> IF s[i] = a THEN b ELSE s[i]]

\* ------------------------------------------------------------ os.path (posixpath)
isabs(s) == StartsWith(s, <<SL>>)

\* os.path.join(a, b)
pathjoin(a, b) ==
  IF StartsWith(b, <<SL>>) THEN b
  ELSE IF a = <<>> \/ EndsWith(a, <<SL>>) THEN a \o b
  ELSE a \o <<SL>> \o b

\* the loop of posixpath.normpath over the components of the path
RECURSIVE NormFold(_, _, _)
NormFold(comps, acc, initial_slashes) ==
  IF comps = <<>> THEN acc
  ELSE LET comp == Head(comps)
           rest == Tail(comps)
       IN IF comp = <<>> \/ comp = <<DOT>> THEN NormFold(rest, acc, initial_slashes)
          ELSE IF \/ comp # <<DOT, DOT>>
                  \/ (initial_slashes = 0 /\ acc = <<>>)
                  \/ (acc # <<>> /\ acc[Len(acc)] = <<DOT, DOT>>)
               THEN NormFold(rest, Append(acc, comp), initial_slashes)
          ELSE IF acc # <<>> THEN NormFold(rest, SubSeq(acc, 1, Len(acc) - 1), initial_slashes)
          ELSE NormFold(rest, acc, initial_slashes)

\* os.path.normpath(s)
normpath(s) ==
  IF s = <<>> THEN <<DOT>>
  ELSE LET initial_slashes ==
             IF ~StartsWith(s, <<SL>>) THEN 0
             ELSE IF StartsWith(s, <<SL, SL>>) /\ ~StartsWith(s, <<SL, SL, SL>>) THEN 2
             ELSE 1
           body == JoinWith(NormFold(Split(s, SL), <<>>, initial_slashes), SL)
           res == [i \in 1..initial_slashes |-> SL] \o body
       IN IF res = <<>> THEN <<DOT>> ELSE res

\* os.path.abspath(s)
abspath(s) == IF isabs(s) THEN normpath(s) ELSE normpath(pathjoin(Cwd, s))

\* ------------------------------------------------------------ url normalization
\* re.sub(r'^/+', '/', s)
CollapseLeadingSlashes(s) == IF StartsWith(s, <<SL>>) THEN <<SL>> \o LStrip(s, SL) ELSE s

\* re.sub(r'^/{0,2}', '', s)
DropTwoSlashes(s) ==
  IF StartsWith(s, <<SL, SL>>) THEN SubSeq(s, 3, Len(s))
  ELSE IF StartsWith(s, <<SL>>) THEN Tail(s)
  ELSE s

\* normalize_resource_name(resource_name, allow_relative, relative_path);
\* relative_path None is passed as <<>> and replaced by os.curdir
normalize_resource_name(resource_name, allow_relative, relative_path) ==
  LET is_dir == resource_name # <<>> /\ resource_name[Len(resource_name)] \in {BSL, SL, DOT}
      n1 == CollapseLeadingSlashes(resource_name)
      rel == IF relative_path = <<>> THEN <<DOT>> ELSE relative_path
      n2 == IF allow_relative THEN normpath(n1) ELSE abspath(pathjoin(rel, n1))
      n3 == Replace(n2, BSL, SL)
  IN IF is_dir /\ ~EndsWith(n3, <<SL>>) THEN n3 \o <<SL>> ELSE n3

\* whether resource_url.split(':', 1) gives the two parts split_resource_url unpacks
HasColon(s) == \E i \in 1..Len(s) : s[i] = COL

\* split_resource_url(resource_url), defined when HasColon(resource_url)
split_resource_url(resource_url) ==
  LET k == CHOOSE i \in 1..Len(resource_url) :
             resource_url[i] = COL /\ \A j \in 1..(i - 1) : resource_url[j] # COL
      protocol == SubSeq(resource_url, 1, k - 1)
      path_ == SubSeq(resource_url, k + 1, Len(resource_url))
  IN IF protocol = <<"nltk">> THEN [protocol |-> protocol, path |-> path_]
     ELSE IF protocol = <<"file">>
          THEN [protocol |-> protocol,
                path |-> IF StartsWith(path_, <<SL>>) THEN <<SL>> \o LStrip(path_, SL) ELSE path_]
     ELSE [protocol |-> protocol, path |-> DropTwoSlashes(path_)]

\* normalize_resource_url(resource_url)
normalize_resource_url(resource_url) ==
  LET sp == IF HasColon(resource_url) THEN split_resource_url(resource_url)
            ELSE [protocol |-> <<"nltk">>, path |-> resource_url]
      protocol == sp.protocol
      name == sp.path
  IN IF protocol = <<"nltk">> /\ isabs(name)
       THEN <<"file", COL, SL, SL>> \o normalize_resource_name(name, FALSE, <<>>)
     ELSE IF protocol = <<"file">>
       THEN <<"file", COL, SL, SL>> \o normalize_resource_name(name, FALSE, <<>>)
     ELSE IF protocol = <<"nltk">>
       THEN <<"nltk", COL>> \o normalize_resource_name(name, TRUE, <<>>)
     ELSE protocol \o <<COL, SL, SL>> \o name

\* ------------------------------------------------------------ normalization runs
\* the characters and words raw resource urls are made of
UrlTokens == {"a", SL, DOT, COL, BSL, "nltk", "file", "http"}

RECURSIVE StringsUpTo(_, _)
StringsUpTo(tokens, n) ==
  IF n = 0 THEN {<<>>}
  ELSE LET shorter == StringsUpTo(tokens, n - 1)
       IN shorter \cup {Append(s, t) : s \in {x \in shorter : Len(x) = n - 1}, t \in tokens}

RawUrls == StringsUpTo(UrlTokens, MaxLen)

\* the record of the last call, before any call
NoCall == [op |-> "none", name |-> <<>>, paths |-> <<>>,
           res |-> [kind |-> "none", path |-> <<>>, entry |-> <<>>], probes |-> <<>>]

InitNorm ==
  /\ raw \in RawUrls
  /\ url = raw
  /\ calls = 0
  /\ fs = <<>>
  /\ path = <<>>
  /\ last = NoCall
  /\ cache = <<>>
  /\ zfiles = <<>>
  /\ ptrs = {}

\* one call of normalize_resource_url on the url in hand (load, then _open, normalize again)
Normalize ==
  /\ calls < MaxCalls
  /\ url' = normalize_resource_url(url)
  /\ calls' = calls + 1
  /\ UNCHANGED <<raw, fs, path, last, cache, zfiles, ptrs>>

NextNorm == Normalize

SpecNorm == InitNorm /\ [][NextNorm]_vars

\* ------------------------------------------------------------ claims on normalization
\* C1: normalization is idempotent: a url that normalize_resource_url returned is
\* returned unchanged by normalize_resource_url, for every raw url including the
\* empty string, '.', and paths with '.'/'..' segments or trailing slashes.
C1_NormalizeIdempotent == calls >= 1 => normalize_resource_url(url) = url

\* the schemes of the identifier syntax: pkg (nltk), file, and the network schemes
KnownSchemes == {<<"nltk">>, <<"file">>, <<"http">>}

HasKnownScheme(s) == \E p \in KnownSchemes : StartsWith(s, p \o <<COL>>)

\* C9: a raw identifier with no recognizable scheme prefix, also one with a ':'
\* later in its path, normalizes to scheme nltk: with the raw string (normalized as
\* a resource name) as its path, or to scheme file: when that path is absolute.
C9_DefaultScheme ==
  (calls = 1 /\ ~HasKnownScheme(raw)) =>
     IF isabs(raw)
     THEN url = <<"file", COL, SL, SL>> \o normalize_resource_name(raw, FALSE, <<>>)
     ELSE url = <<"nltk", COL>> \o normalize_resource_name(raw, TRUE, <<>>)

\* ------------------------------------------------------------ the file system
\* fs is a record: files (absolute paths of regular files), dirs (absolute paths
\* of directories), zips (valid archive file -> its namelist), data (<<file, entry>>
\* -> the bytes there; entry is <<>> for a plain file).  A file whose name ends in
\* .zip and that is not in DOMAIN fs.zips is not a zip archive.
ZIPEXT == <<DOT, "zip">>
GZEXT == <<DOT, "gz">>

exists(p) == abspath(p) \in fs.files \cup fs.dirs

isfile(p) == abspath(p) \in fs.files

isdir(p) == abspath(p) \in fs.dirs

\* urllib's url2pathname(s): on POSIX it unquotes %xx escapes, and no string has any
url2pathname(s) == s

\* ------------------------------------------------------------ path pointers
Pointer(kind, p, entry) == [kind |-> kind, path |-> p, entry |-> entry]

LookupError == Pointer("LookupError", <<>>, <<>>)

IsPointer(r) == r.kind \in {"fs", "gzfs", "zip"}

\* FileSystemPathPointer.__init__(_path)
FileSystemPathPointer(kind, p) ==
  IF abspath(p) \in fs.files \cup fs.dirs THEN Pointer(kind, abspath(p), <<>>)
  ELSE Pointer("IOError", <<>>, <<>>)

\* OpenOnDemandZipFile.__init__(filename): zipfile.ZipFile.__init__ opens the file
\* (IOError when it is missing or a directory) and reads its directory (BadZipFile,
\* which is no IOError, when the file is no archive); then the handle is closed
OpenOnDemandZipFile(filename) ==
  IF filename \notin fs.files THEN "IOError"
  ELSE IF filename \notin DOMAIN fs.zips THEN "BadZipFile"
  ELSE "ok"

\* the entry check of ZipFilePathPointer.__init__ on the archive's namelist
EntryExists(names, entry) ==
  \/ entry = <<>>
  \/ entry \in names
  \/ (EndsWith(entry, <<SL>>) /\ \E n \in names : StartsWith(n, entry))

\* ZipFilePathPointer.__init__(zipfile, entry) once zipfile is an OpenOnDemandZipFile
\* (of the archive at filename): the entry is normalized and looked up
PointerInto(filename, entry0) ==
  LET entry == LStrip(normalize_resource_name(entry0, TRUE, <<SL>>), SL)
  IN IF EntryExists(fs.zips[filename], entry) THEN Pointer("zip", filename, entry)
     ELSE Pointer("IOError", <<>>, <<>>)

\* ZipFilePathPointer.__init__(zipfile, entry) with the zipfile given by name
ZipFilePathPointer(zipfile, entry0) ==
  LET filename == abspath(zipfile)
      made == OpenOnDemandZipFile(filename)
  IN IF made # "ok" THEN Pointer(made, <<>>, <<>>)
     ELSE PointerInto(filename, entry0)

\* ------------------------------------------------------------ find
\* m = re.match(r'(.*\.zip)/?(.*)$|', resource_name): the greedy .* takes the
\* last '.zip' of the name; without any, both groups are None (has = FALSE)
ZipSplit(s) ==
  LET at == {k \in 1..(Len(s) - 1) : SubSeq(s, k, k + 1) = ZIPEXT}
  IN IF at = {} THEN [has |-> FALSE, zipfile |-> <<>>, zipentry |-> <<>>]
     ELSE LET k == CHOOSE i \in at : \A j \in at : j <= i
              rest == SubSeq(s, k + 2, Len(s))
          IN [has |-> TRUE,
              zipfile |-> SubSeq(s, 1, k + 1),
              zipentry |-> IF StartsWith(rest, <<SL>>) THEN Tail(rest) ELSE rest]

\* what one root of the search path gives for the name (the body of the for loop):
\* a pointer, IOError/none (the loop goes on) or BadZipFile (the exception leaves find)
TryRoot(path_, resource_name, zs) ==
  IF path_ # <<>> /\ isfile(path_) /\ EndsWith(path_, ZIPEXT)
  THEN ZipFilePathPointer(path_, resource_name)
  ELSE IF path_ = <<>> \/ isdir(path_)
  THEN IF ~zs.has
       THEN LET p == pathjoin(path_, url2pathname(resource_name))
            IN IF exists(p)
               THEN IF EndsWith(p, GZEXT) THEN FileSystemPathPointer("gzfs", p)
                    ELSE FileSystemPathPointer("fs", p)
               ELSE Pointer("none", <<>>, <<>>)
       ELSE LET p == pathjoin(path_, url2pathname(zs.zipfile))
            IN IF exists(p) THEN ZipFilePathPointer(p, zs.zipentry)
               ELSE Pointer("none", <<>>, <<>>)
  ELSE Pointer("none", <<>>, <<>>)

Probe(name, root) == [name |-> name, root |-> root, rewrite |-> 0, depth |-> 0]

\* a search result with one more probe in front
After(probes, r) == [res |-> r.res, probes |-> probes \o r.probes]

RECURSIVE SearchRoots(_, _, _, _)

\* one round of the for loop: r is what the i-th root gave; 'continue' or falling
\* out of the if goes on with the next root, anything else leaves find
SearchStep(r, resource_name, zs, paths, i) ==
  IF r.kind \in {"none", "IOError"}
  THEN After(<<Probe(resource_name, paths[i])>>, SearchRoots(resource_name, zs, paths, i + 1))
  ELSE [res |-> r, probes |-> <<Probe(resource_name, paths[i])>>]

\* for path_ in paths: ... from the i-th root on; the result and the roots probed
SearchRoots(resource_name, zs, paths, i) ==
  IF i > Len(paths) THEN [res |-> LookupError, probes |-> <<>>]
  ELSE SearchStep(TryRoot(paths[i], resource_name, zs), resource_name, zs, paths, i)

\* the rewrite without the repeated piece: p becomes p.zip instead of p.zip/p
ModifiedNameNoRepeat(pieces, i) ==
  JoinWith(SubSeq(pieces, 1, i - 1) \o <<pieces[i] \o ZIPEXT>> \o SubSeq(pieces, i + 1, Len(pieces)), SL)

\* '/'.join(pieces[:i] + [pieces[i] + '.zip'] + pieces[i:]), pieces counted from 1
ModifiedName(pieces, i) ==
  JoinWith(SubSeq(pieces, 1, i - 1) \o <<pieces[i] \o ZIPEXT>> \o SubSeq(pieces, i, Len(pieces)), SL)

\* the probes of the recursive find for the i-th rewrite, one call deeper
Rewritten(probes, i) ==
  [k \in 1..Len(probes) |-> [probes[k] EXCEPT !.rewrite = i, !.depth = @ + 1]]

RECURSIVE find(_, _)
RECURSIVE Fallback(_, _, _)

\* try: return find(modified_name, paths)   (r is what that find gave)
\* except LookupError: pass
FallbackStep(r, pieces, paths, i) ==
  IF r.res.kind = "LookupError"
  THEN After(Rewritten(r.probes, i), Fallback(pieces, paths, i + 1))
  ELSE [res |-> r.res, probes |-> Rewritten(r.probes, i)]

\* for i in range(len(pieces)): ... from the i-th piece on
Fallback(pieces, paths, i) ==
  IF i > Len(pieces) THEN [res |-> LookupError, probes |-> <<>>]
  ELSE FallbackStep(find(ModifiedName(pieces, i), paths), pieces, paths, i)

\* find whose loop does not return what it found: the fallback runs all the same
FindAfterLoopNoReturn(literal, resource_name, zs, paths) ==
  IF zs.has THEN literal
  ELSE After(literal.probes, Fallback(Split(resource_name, SL), paths, 1))

\* find after its for loop: literal is what the loop gave
FindAfterLoop(literal, resource_name, zs, paths) ==
  IF literal.res.kind # "LookupError" \/ zs.has THEN literal
  ELSE After(literal.probes, Fallback(Split(resource_name, SL), paths, 1))

\* find with its resource name normalized
FindNormalized(resource_name, zs, paths) ==
  FindAfterLoop(SearchRoots(resource_name, zs, paths, 1), resource_name, zs, paths)

\* find(resource_name, paths): res is the pointer returned or the exception raised,
\* probes the (name, root) pairs tried, in order, each with the rewrite that made
\* the name (0: the name as given, i: the rewrite of its i-th piece) and the depth
\* of the recursive call that tried it
find(resource_name, paths) ==
  FindNormalized(normalize_resource_name(resource_name, TRUE, <<>>),
                 ZipSplit(normalize_resource_name(resource_name, TRUE, <<>>)), paths)

\* ------------------------------------------------------------ the worlds find runs in
D1 == <<SL, "d1">>
D2 == <<SL, "d2">>
\* a root that is a zip archive, and one that ends in .zip and is no archive
ZR == <<SL, "z", DOT, "zip">>
BAD == <<SL, "bad", DOT, "zip">>

Roots == {D1, D2, ZR, BAD}

ABC == <<"a", SL, "b", SL, "c">>
BC == <<"b", SL, "c">>
AB_ZIP == <<"a", SL, "b", DOT, "zip">>
A_ZIP == <<"a", DOT, "zip">>
\* the two explicit spellings of a/b/c inside a/b.zip, and the one inside a.zip
AB_ZIP_B_C == AB_ZIP \o <<SL>> \o BC
AB_ZIP_C == AB_ZIP \o <<SL, "c">>
A_ZIP_A_B_C == A_ZIP \o <<SL>> \o ABC

\* a/b/c from the directory above
UP_ABC == <<DOT, DOT, SL>> \o ABC

Names == {ABC, AB_ZIP_B_C, AB_ZIP_C, A_ZIP_A_B_C, UP_ABC}

Absent == [st |-> "absent", names |-> {}]
Corrupt == [st |-> "corrupt", names |-> {}]
Archive(names) == [st |-> "ok", names |-> names]

\* the directories above a file
Parents(p) == {SubSeq(p, 1, k - 1) : k \in {j \in 2..Len(p) : p[j] = SL}}

\* the file system holding the plain files and, at each path of DOMAIN arch, what the
\* function says: nothing, a file that is no archive, or an archive with its namelist
MakeFS(plain, arch) ==
  LET archfiles == {p \in DOMAIN arch : arch[p].st # "absent"}
      files == plain \cup archfiles
  IN [files |-> files,
      dirs |-> {<<SL>>, Cwd, D1, D2} \cup UNION {Parents(f) : f \in files},
      zips |-> [p \in {q \in archfiles : arch[q].st = "ok"} |-> arch[p].names],
      data |-> <<>>]

\* the archives of a world: under D1, a/b.zip; under D2, a/b.zip and a.zip; the roots
Archives(z1, z2, z0, zr) ==
  [p \in {pathjoin(D1, AB_ZIP), pathjoin(D2, AB_ZIP), pathjoin(D2, A_ZIP), ZR, BAD} |->
     IF p = pathjoin(D1, AB_ZIP) THEN z1
     ELSE IF p = pathjoin(D2, AB_ZIP) THEN z2
     ELSE IF p = pathjoin(D2, A_ZIP) THEN z0
     ELSE IF p = ZR THEN zr
     ELSE Corrupt]

FindWorlds ==
  {MakeFS(plain, Archives(z1, z2, z0, zr)) :
     plain \in SUBSET {pathjoin(D1, ABC), pathjoin(D2, ABC)},
     z1 \in {Absent, Corrupt, Archive({BC}), Archive({<<"c">>})},
     z2 \in {Absent, Archive({BC})},
     z0 \in {Absent, Archive({ABC})},
     zr \in {Archive({}), Archive({ABC})}}

\* the record of a call: its arguments and what it gave
Called(op, name, paths, r) ==
  [op |-> op, name |-> name, paths |-> paths, res |-> r.res, probes |-> r.probes]

\* nltk.data.path as the import of the module leaves it
InitialPath == <<D1>>

\* a find that keeps the search path it saw at import time
SnapshotPaths == InitialPath

\* if paths is None: paths = path  (the module's list, at the time of the call)
DefaultPaths == path

\* the search paths: the lists of at most n different roots
RECURSIVE SearchPaths(_)
SearchPaths(n) ==
  IF n = 0 THEN {<<>>}
  ELSE LET shorter == SearchPaths(n - 1)
       IN shorter \cup {Append(p, r) : p \in {x \in shorter : Len(x) = n - 1}, r \in Roots}

InitFind ==
  /\ fs \in FindWorlds
  /\ path \in {p \in SearchPaths(MaxRoots) : \A i, j \in 1..Len(p) : i # j => p[i] # p[j]}
  /\ last = NoCall
  /\ raw = <<>>
  /\ url = <<>>
  /\ calls = 0
  /\ cache = <<>>
  /\ zfiles = <<>>
  /\ ptrs = {}

\* nltk.data.find(name)
FindCall(name) ==
  /\ last' = Called("find", name, DefaultPaths, find(name, DefaultPaths))
  /\ UNCHANGED <<raw, url, calls, fs, path, cache, zfiles, ptrs>>

NextFind == \E name \in Names : FindCall(name)

SpecFind == InitFind /\ [][NextFind]_vars

\* ------------------------------------------------------------ claims on find
\* the root holds the resource under its literal name: as a plain file below a
\* directory root, or as an entry of a root that is an archive
ContainsLiterally(root, name) ==
  \/ (root \in DOMAIN fs.zips /\ name \in fs.zips[root])
  \/ (root \in fs.dirs /\ pathjoin(root, name) \in fs.files)

\* the pointer to the resource the root holds under its literal name
LiteralPointer(root, name) ==
  IF root \in DOMAIN fs.zips THEN Pointer("zip", root, name)
  ELSE Pointer("fs", pathjoin(root, name), <<>>)

Holders(paths, name) == {i \in 1..Len(paths) : ContainsLiterally(paths[i], name)}

First(S) == CHOOSE i \in S : \A j \in S : i <= j

\* C2: first match wins: when two roots of the search path both hold the resource
\* literally, find returns the pointer under the one that comes first.
C2_FirstMatchWins ==
  (last.op = "find" /\ Cardinality(Holders(last.paths, last.name)) >= 2) =>
     last.res = LiteralPointer(last.paths[First(Holders(last.paths, last.name))], last.name)

\* C7: a candidate that does not pan out never aborts the resolution: find either
\* returns a pointer or, every root and rewrite exhausted, raises LookupError.
C7_OnlyLookupError ==
  last.op = "find" => (IsPointer(last.res) \/ last.res.kind = "LookupError")

\* the roots under which a/b.zip is an archive with the entry b/c
ArchiveRoots(paths) ==
  {i \in 1..Len(paths) :
     /\ paths[i] \in fs.dirs
     /\ pathjoin(paths[i], AB_ZIP) \in DOMAIN fs.zips
     /\ BC \in fs.zips[pathjoin(paths[i], AB_ZIP)]}

\* a/b/c is under no root literally, and a/b.zip under some root has the entry b/c
FallbackCase(paths) == Holders(paths, ABC) = {} /\ ArchiveRoots(paths) # {}

\* the entry b/c of a/b.zip under the first root that has it
FallbackEntry(paths) == Pointer("zip", pathjoin(paths[First(ArchiveRoots(paths))], AB_ZIP), BC)

ProbedRoots(ks) == [n \in 1..Cardinality(ks) |-> last.probes[First(ks) + n - 1].root]

IsPrefix(a, b) == Len(a) <= Len(b) /\ SubSeq(b, 1, Len(a)) = a

\* C6: the fallback comes only after every root was tried with the literal name;
\* the rewrites are tried by increasing segment index, each against the roots in
\* order, and nothing is tried after the first success; so a literal match in a
\* later root beats a fallback match in an earlier root.  (of(i) are the probes made
\* for the i-th rewrite, tried(i) those of them that try the rewritten name itself,
\* which come first; any others are made by the find that was called with it.)
C6_FallbackOrdering ==
  last.op = "find" =>
     LET n == Len(last.probes)
         rewrites == {last.probes[k].rewrite : k \in 1..n}
         of(i) == {k \in 1..n : last.probes[k].rewrite = i}
         tried(i) == {k \in of(i) : last.probes[k].depth <= 1}
     IN /\ \A k \in 1..(n - 1) : last.probes[k].rewrite <= last.probes[k + 1].rewrite
        /\ \A i \in rewrites :
             /\ of(i) = First(of(i))..(First(of(i)) + Cardinality(of(i)) - 1)
             /\ tried(i) = First(of(i))..(First(of(i)) + Cardinality(tried(i)) - 1)
             /\ IsPrefix(ProbedRoots(tried(i)), last.paths)
             /\ (\E j \in rewrites : j > i) => ProbedRoots(tried(i)) = last.paths
             /\ \A j \in 0..(i - 1) : j \in rewrites
        /\ \A k \in 1..(n - 1) :
             ~IsPointer(TryRoot(last.probes[k].root, last.probes[k].name, ZipSplit(last.probes[k].name)))
        /\ IsPointer(last.res) =>
             last.res = TryRoot(last.probes[n].root, last.probes[n].name, ZipSplit(last.probes[n].name))
        /\ Holders(last.paths, last.name) # {} => rewrites = {0}

\* found by the second rewrite under the second of three roots
C6_Witness ==
  /\ last.op = "find"
  /\ IsPointer(last.res)
  /\ Len(last.paths) = 3
  /\ last.probes[Len(last.probes)].rewrite = 2
  /\ last.probes[Len(last.probes)].root = last.paths[2]

\* C19: the fallback is single-position: every rewritten name that the recursive
\* find is called with still has its archive component after normalization, so the
\* recursive call makes no rewrites of its own and the recursion is at most one
\* deep, also for names that begin with '..' segments.
C19_SinglePosition ==
  last.op = "find" =>
    \A k \in 1..Len(last.probes) :
       /\ last.probes[k].depth <= 1
       /\ last.probes[k].depth = 1 => ZipSplit(last.probes[k].name).has

\* ------------------------------------------------------------ a search path that changes
PathWorlds ==
  {MakeFS(plain, Archives(Absent, Absent, Absent, Archive({ABC}))) :
     plain \in SUBSET {pathjoin(D1, ABC), pathjoin(D2, ABC)}}

InitPath ==
  /\ fs \in PathWorlds
  /\ path = InitialPath
  /\ last = NoCall
  /\ raw = <<>>
  /\ url = <<>>
  /\ calls = 0
  /\ cache = <<>>
  /\ zfiles = <<>>
  /\ ptrs = {}

\* nltk.data.path.append(root)
AppendRoot(root) ==
  /\ Len(path) < MaxRoots
  /\ \A i \in 1..Len(path) : path[i] # root
  /\ path' = Append(path, root)
  /\ UNCHANGED <<raw, url, calls, fs, last, cache, zfiles, ptrs>>

\* del nltk.data.path[i]
RemoveRoot(i) ==
  /\ path' = SubSeq(path, 1, i - 1) \o SubSeq(path, i + 1, Len(path))
  /\ UNCHANGED <<raw, url, calls, fs, last, cache, zfiles, ptrs>>

NextPath ==
  \/ FindCall(ABC)
  \/ \E root \in Roots : AppendRoot(root)
  \/ \E i \in 1..Len(path) : RemoveRoot(i)

SpecPath == InitPath /\ [][NextPath]_vars

Bytes(gz, enc, obj) == [gz |-> gz, enc |-> enc, obj |-> obj]

NoBytes == Bytes(FALSE, "", "")

\* a Python value: a decoded object, a str, bytes, or None
Value(kind, obj, enc, gz) == [kind |-> kind, obj |-> obj, enc |-> enc, gz |-> gz]

None == Value("None", "", "", FALSE)

\* an exception leaving a call
Raised(name) == Value(name, "", "", FALSE)

IsValue(v) == v.kind \in {"None", "object", "str", "bytes", "cfg", "pcfg", "fcfg", "fol", "logic", "val"}

Stream(kind, data) == [kind |-> kind, data |-> data]

\* PathPointer.open() of the three pointer classes, and of what find raised instead
PointerOpen(ptr) ==
  IF ptr.kind = "fs"
  THEN IF ptr.path \in fs.dirs THEN Stream("IOError", NoBytes)
       ELSE Stream("stream", fs.data[<<ptr.path, <<>>>>])
  ELSE IF ptr.kind = "gzfs"
  THEN IF ptr.path \in fs.dirs THEN Stream("IOError", NoBytes)
       ELSE Stream("gzstream", fs.data[<<ptr.path, <<>>>>])
  ELSE IF ptr.kind = "zip"
  THEN IF ptr.entry \notin fs.zips[ptr.path] THEN Stream("KeyError", NoBytes)
       ELSE IF EndsWith(ptr.entry, GZEXT) THEN Stream("UnboundLocalError", NoBytes)
       ELSE Stream("stream", fs.data[<<ptr.path, ptr.entry>>])
  ELSE Stream(ptr.kind, NoBytes)

\* opened_resource.read(): a GzipFile stream gunzips as it is read; where _open
\* raised there is no stream, and load is left with that exception
Read(stream) ==
  IF stream.kind = "gzstream"
  THEN IF stream.data.gz THEN Stream("bytes", [stream.data EXCEPT !.gz = FALSE])
       ELSE Stream("OSError", NoBytes)
  ELSE IF stream.kind = "stream" THEN Stream("bytes", stream.data)
  ELSE stream

\* ------------------------------------------------------------ load and its cache
FORMATS == {"pickle", "json", "yaml", "cfg", "pcfg", "fcfg", "fol", "logic", "val", "raw", "text"}

\* AUTO_FORMATS.get(ext): "None" for an extension that is no key
AUTO_FORMATS(ext) ==
  IF ext \in {<<w>> : w \in FORMATS \ {"raw", "text"}} THEN ext[1]
  ELSE IF ext \in {<<"txt">>, <<"text">>} THEN "text"
  ELSE "None"

\* the extension load looks up when format == 'auto'
AutoExt(resource_url_parts) ==
  IF resource_url_parts[Len(resource_url_parts)] = <<"gz">>
  THEN resource_url_parts[Len(resource_url_parts) - 1]
  ELSE resource_url_parts[Len(resource_url_parts)]

\* the decoders of load, applied to what read() gave
Decode(format, b) ==
  IF b.kind # "bytes" THEN Raised(b.kind)
  ELSE IF format = "raw" THEN Value("bytes", b.data.obj, b.data.enc, b.data.gz)
  ELSE IF format = "pickle"
  THEN IF b.data.gz \/ b.data.enc # "pickle" THEN Raised("UnpicklingError")
       ELSE IF b.data.obj = "None" THEN None
       ELSE Value("object", b.data.obj, "", FALSE)
  ELSE IF format = "json"
  THEN IF b.data.gz \/ b.data.enc # "json" \/ b.data.obj = "one" THEN Raised("ValueError")
       ELSE Raised("TypeError")
  ELSE IF format = "yaml"
  THEN IF b.data.gz \/ b.data.enc # "yaml" THEN Raised("YAMLError")
       ELSE IF b.data.obj = "None" THEN None
       ELSE Value("object", b.data.obj, "", FALSE)
  ELSE Value(IF format = "text" THEN "str" ELSE format, b.data.obj,
             IF b.data.gz \/ b.data.enc # "utf-8" THEN "latin-1" ELSE "utf-8", b.data.gz)

\* _open(resource_url) with the URL normalized and split: the open stream, or the
\* exception of find or of open(); urlopen has no network to reach
OpenSplit(sp) ==
  IF sp.protocol = <<"nltk">> THEN PointerOpen(find(sp.path, path \o << <<>> >>).res)
  ELSE IF sp.protocol = <<"file">> THEN PointerOpen(find(sp.path, << <<>> >>).res)
  ELSE Stream("URLError", NoBytes)

_open(resource_url) == OpenSplit(split_resource_url(normalize_resource_url(resource_url)))

\* the record of a load: its arguments, the cache key it used, what it returned or
\* raised, whether it called _open, and the cache it leaves
Loaded(resource_url, format, res, opened, after) ==
  [key |-> <<resource_url, format>>, res |-> res, opened |-> opened, cache |-> after]

\* _resource_cache[(resource_url, format)] = resource_val
CachePut(key, val) ==
  [k \in DOMAIN cache \cup {key} |-> IF k = key THEN val ELSE cache[k]]

\* load after the decoder ran: close, store if asked to, return
LoadDecoded(resource_url, format, usecache, val) ==
  Loaded(resource_url, format, val, TRUE,
         IF IsValue(val) /\ usecache THEN CachePut(<<resource_url, format>>, val) ELSE cache)

\* a load that looks into the cache whether or not it was asked to use it
LoadValidAlwaysCached(resource_url, format, usecache) ==
  IF /\ <<resource_url, format>> \in DOMAIN cache
     /\ cache[<<resource_url, format>>] # None
  THEN Loaded(resource_url, format, cache[<<resource_url, format>>], FALSE, cache)
  ELSE LoadDecoded(resource_url, format, usecache, Decode(format, Read(_open(resource_url))))

\* load once the format is known to be in FORMATS
LoadValid(resource_url, format, usecache) ==
  IF /\ usecache
     /\ <<resource_url, format>> \in DOMAIN cache
     /\ cache[<<resource_url, format>>] # None
  THEN Loaded(resource_url, format, cache[<<resource_url, format>>], FALSE, cache)
  ELSE LoadDecoded(resource_url, format, usecache, Decode(format, Read(_open(resource_url))))

\* a load that finds out about the format only after _open, where it picks a decoder
LoadFormatLate(resource_url, format, usecache) ==
  IF format = "None" \/ format \notin FORMATS
  THEN Loaded(resource_url, format, Raised("ValueError"), TRUE, cache)
  ELSE LoadValid(resource_url, format, usecache)

\* load once format is no longer 'auto'
LoadFormat(resource_url, format, usecache) ==
  IF format = "None" \/ format \notin FORMATS
  THEN Loaded(resource_url, format, Raised("ValueError"), FALSE, cache)
  ELSE LoadValid(resource_url, format, usecache)

\* load with its URL normalized
LoadNormalized(resource_url, format, usecache) ==
  LoadFormat(resource_url,
             IF format = "auto" THEN AUTO_FORMATS(AutoExt(Split(resource_url, DOT))) ELSE format,
             usecache)

\* load(resource_url, format, cache)
load(resource_url, format, usecache) ==
  LoadNormalized(normalize_resource_url(resource_url), format, usecache)

\* ------------------------------------------------------------ the worlds load runs in
A_TXT == <<"a", DOT, "txt">>
A_PICKLE == <<"a", DOT, "pickle">>
A_XYZ == <<"a", DOT, "xyz">>
A_TXT_GZ == A_TXT \o GZEXT
A_XYZ_GZ == A_XYZ \o GZEXT

\* what the files of a world hold; pickled is the object a.pickle was dumped from
Contents(files, pickled) ==
  [loc \in {<<f, <<>>>> : f \in files} |->
     IF loc[1] = pathjoin(D1, A_PICKLE) THEN Bytes(FALSE, "pickle", pickled)
     ELSE IF EndsWith(loc[1], GZEXT) THEN Bytes(TRUE, "utf-8", "t")
     ELSE Bytes(FALSE, "utf-8", "t")]

LoadWorld(files, pickled) ==
  [MakeFS(files, <<>>) EXCEPT !.data = Contents(files, pickled)]

LoadWorlds ==
  {LoadWorld({pathjoin(D1, A_PICKLE)} \cup more, pickled) :
     more \in SUBSET {pathjoin(D1, A_TXT), pathjoin(D1, A_TXT_GZ)},
     pickled \in {"None", "o"}}

\* the (resource_url, format) arguments of the calls
LoadRequests ==
  {<<A_TXT, "auto">>, <<<<"nltk", COL>> \o A_TXT, "text">>, <<A_PICKLE, "auto">>,
   <<A_PICKLE, "pickle">>, <<A_TXT, "pickle">>, <<A_TXT_GZ, "auto">>,
   <<A_XYZ, "auto">>, <<A_XYZ_GZ, "auto">>, <<A_TXT, "bogus">>}

NoLoad ==
  [op |-> "none", url |-> <<>>, format |-> "", usecache |-> FALSE,
   key |-> <<<<>>, "">>, res |-> None, opened |-> FALSE]

InitLoad ==
  /\ fs \in LoadWorlds
  /\ path = InitialPath
  /\ last = NoLoad
  /\ cache = <<>>
  /\ raw = <<>>
  /\ url = <<>>
  /\ calls = 0
  /\ zfiles = <<>>
  /\ ptrs = {}

\* what a load leaves behind (r is what load gave)
LoadDone(resource_url, format, usecache, r) ==
  /\ last' = [op |-> "load", url |-> resource_url, format |-> format, usecache |-> usecache,
              key |-> r.key, res |-> r.res, opened |-> r.opened]
  /\ cache' = r.cache

Load(resource_url, format, usecache) ==
  /\ LoadDone(resource_url, format, usecache, load(resource_url, format, usecache))
  /\ UNCHANGED <<raw, url, calls, fs, path, zfiles, ptrs>>

\* clear_cache()
ClearCache ==
  /\ cache' = <<>>
  /\ UNCHANGED <<raw, url, calls, fs, path, last, zfiles, ptrs>>

NextLoad ==
  \/ \E rq \in LoadRequests, usecache \in BOOLEAN : Load(rq[1], rq[2], usecache)
  \/ ClearCache

SpecLoad == InitLoad /\ [][NextLoad]_vars

\* a step that is a call of load
LoadStep == last' # last /\ last'.op = "load"

\* C4: once a load with cache=True has completed for a (normalized url, format), and
\* the cache was not cleared since, a load with cache=True of the same key returns
\* the cached value without a second resolve/open/read/decode cycle, whatever the
\* decoder returned; with the cache just cleared, a load goes through a fresh cycle.
C4_CacheProperty ==
  [][LoadStep /\ last'.usecache /\ last'.key[2] \in FORMATS =>
        IF last'.key \in DOMAIN cache
        THEN ~last'.opened /\ last'.res = cache[last'.key]
        ELSE cache = <<>> => last'.opened]_vars

\* the last piece of the URL's final filename, one trailing .gz stripped first
FinalExtension(resource_url) ==
  LET filename == Split(resource_url, SL)[Len(Split(resource_url, SL))]
      stem == IF EndsWith(filename, GZEXT) THEN SubSeq(filename, 1, Len(filename) - 2)
              ELSE filename
  IN Split(stem, DOT)[Len(Split(stem, DOT))]

BadFormat(resource_url, format) ==
  IF format = "auto" THEN AUTO_FORMATS(FinalExtension(resource_url)) = "None"
  ELSE format \notin FORMATS

\* C8: a load whose format is 'auto' with an extension (one trailing .gz stripped)
\* that has no mapping, or whose format is no recognized kind, raises ValueError
\* before any cache lookup or resolution: the cache is unchanged and _open is not called.
C8_FormatValidation ==
  [][LoadStep /\ BadFormat(last'.url, last'.format) =>
        /\ last'.res = Raised("ValueError")
        /\ ~last'.opened
        /\ cache' = cache]_vars

\* a load with an unmapped extension failed while the cache held resources
C8_Witness ==
  /\ last.op = "load"
  /\ last.format = "auto"
  /\ BadFormat(last.url, last.format)
  /\ last.res = Raised("ValueError")
  /\ last.usecache
  /\ cache # <<>>

\* C20: a load with cache=False neither reads nor writes the resource cache: the
\* cache entries and their values are the same after the call as before it, whether
\* the load succeeds or fails, and when its format is a recognized one it goes
\* through a fresh resolve/open/decode cycle even when an entry for its
\* (url, format) is cached.
C20_UncachedLoad ==
  [][LoadStep /\ ~last'.usecache =>
        /\ cache' = cache
        /\ last'.key[2] \in FORMATS => last'.opened]_vars

\* a load with cache=False went through a fresh cycle and returned a value while the
\* cache held a value for its (url, format)
C20_Witness ==
  /\ last.op = "load"
  /\ ~last.usecache
  /\ last.opened
  /\ IsValue(last.res)
  /\ last.key \in DOMAIN cache
  /\ cache[last.key] # None

\* ------------------------------------------------------------ archive handles
MaxHandles == 2

\* the archive at /z.zip holds a/b, and in some worlds the directory entry a/ or c.gz
A_B == <<"a", SL, "b">>
A_DIR == <<"a", SL>>
C_GZ == <<"c", DOT, "gz">>

ZipWorlds ==
  {MakeFS({}, Archives(Absent, Absent, Absent, Archive({A_B} \cup more))) :
     more \in {{}, {A_DIR}, {C_GZ}}}

\* the arguments of ZipFilePathPointer(zipfile, entry): an archive, a file that is
\* none, a file that is missing; entries that are there, implied, or absent
ZipNames == {ZR, BAD, pathjoin(D1, A_ZIP)}
Entries == {A_B, A_DIR, C_GZ, <<"a">>, <<>>}

\* the record of a call: what was called, the handle it went to (0: none) and that
\* handle's fp before the call, the entry given, and the outcome
ZipCalled(op, zipfile, entry, before, res) ==
  [op |-> op, zipfile |-> zipfile, entry |-> entry, before |-> before, res |-> res]

NoZipCall == ZipCalled("none", 0, <<>>, "None", "")

\* zfiles: the OpenOnDemandZipFile objects (filename, and fp: "None" or "open");
\* ptrs: the ZipFilePathPointer objects (_zipfile: an index of zfiles, _entry)
InitZip ==
  /\ fs \in ZipWorlds
  /\ zfiles = <<>>
  /\ ptrs = {}
  /\ last = NoZipCall
  /\ path = InitialPath
  /\ cache = <<>>
  /\ raw = <<>>
  /\ url = <<>>
  /\ calls = 0

\* what a constructor leaves behind (made is the pointer, or the exception)
Constructed(op, made, handles, zipfile, entry) ==
  /\ last' = ZipCalled(op, zipfile, entry, "None", made.kind)
  /\ IF made.kind = "zip"
     THEN /\ zfiles' = handles
          /\ ptrs' = ptrs \cup {[zipfile |-> zipfile, entry |-> made.entry]}
     ELSE UNCHANGED <<zfiles, ptrs>>

\* ZipFilePathPointer(zipfile, entry) with zipfile a string: a new
\* OpenOnDemandZipFile, closed when its constructor returns
NewPointer(zipfile, entry) ==
  /\ Len(zfiles) < MaxHandles
  /\ Constructed("new", ZipFilePathPointer(zipfile, entry),
                 Append(zfiles, [filename |-> abspath(zipfile), fp |-> "None"]),
                 Len(zfiles) + 1, entry)
  /\ UNCHANGED <<raw, url, calls, fs, path, cache>>

\* a join that pastes the entry together and looks nothing up
JoinPointerUnchecked(p, fileid) ==
  /\ Constructed("join", Pointer("zip", zfiles[p.zipfile].filename, p.entry \o <<SL>> \o fileid),
                 zfiles, p.zipfile, p.entry \o <<SL>> \o fileid)
  /\ UNCHANGED <<raw, url, calls, fs, path, cache>>

\* ZipFilePathPointer.join(fileid): a pointer on the same OpenOnDemandZipFile
JoinPointer(p, fileid) ==
  /\ Constructed("join", PointerInto(zfiles[p.zipfile].filename, p.entry \o <<SL>> \o fileid),
                 zfiles, p.zipfile, p.entry \o <<SL>> \o fileid)
  /\ UNCHANGED <<raw, url, calls, fs, path, cache>>

\* OpenOnDemandZipFile.read(name): the handle after the call, and what it gave
ZipRead(zf, name) ==
  IF zf.fp # "None" THEN [zf |-> zf, res |-> "AssertionError"]
  ELSE IF name \notin fs.zips[zf.filename]
  THEN [zf |-> [zf EXCEPT !.fp = "open"], res |-> "KeyError"]
  ELSE [zf |-> zf, res |-> "bytes"]

\* ZipFilePathPointer.open() after its read
ZipOpened(p, r) ==
  /\ zfiles' = [zfiles EXCEPT ![p.zipfile] = r.zf]
  /\ last' = ZipCalled("open", p.zipfile, p.entry, zfiles[p.zipfile].fp,
                        IF r.res # "bytes" THEN r.res
                        ELSE IF EndsWith(p.entry, GZEXT) THEN "UnboundLocalError"
                        ELSE "stream")

OpenPointer(p) ==
  /\ ZipOpened(p, ZipRead(zfiles[p.zipfile], p.entry))
  /\ UNCHANGED <<raw, url, calls, fs, path, cache, ptrs>>

NextZip ==
  \/ \E zipfile \in ZipNames, entry \in Entries : NewPointer(zipfile, entry)
  \/ \E p \in ptrs, fileid \in {<<"b">>, <<"a">>} : JoinPointer(p, fileid)
  \/ \E p \in ptrs : OpenPointer(p)

SpecZip == InitZip /\ [][NextZip]_vars

\* C5: outside the span of a read call no archive handle holds an open descriptor:
\* every handle is closed after its construction and after every read, whatever the
\* constructions and reads made through the pointers that share it.
C5_HandleClosed == \A i \in 1..Len(zfiles) : zfiles[i].fp = "None"

\* the members of the archive a handle is on
Members(zipfile) == fs.zips[zfiles[zipfile].filename]

\* C11: open() on a pointer to an archive entry reads the entry through the handle
\* and returns a stream of its content, decompressed when the entry name ends in
\* .gz: with the handle closed before the call, every open of a member of the
\* archive returns a stream.
C11_ArchiveOpen ==
  (/\ last.op = "open"
   /\ last.before = "None"
   /\ last.entry \in Members(last.zipfile)) => last.res = "stream"

\* a step that is a call of open() on a pointer
OpenStep == last' # last /\ last'.op = "open"

\* the read inside open() returned the bytes (what open() does with them afterwards
\* may still fail)
ReadSucceeded(res) == res \in {"stream", "UnboundLocalError"}

\* C18: a read that fails leaves the shared handle usable: the handle is closed
\* when the failure reaches the caller, and so every read of a member of the
\* archive, through any pointer on the handle, succeeds, also after a failed read.
C18_FailedReadLeavesUsable ==
  [][OpenStep =>
       /\ ~ReadSucceeded(last'.res) => zfiles'[last'.zipfile].fp = "None"
       /\ last'.entry \in Members(last'.zipfile) => ReadSucceeded(last'.res)]_vars

\* a name the archive of the handle has: a member, or a directory some member is in
InArchive(zipfile, entry) ==
  \/ entry \in Members(zipfile)
  \/ /\ entry # <<>>
     /\ entry[Len(entry)] = SL
     /\ \E n \in Members(zipfile) : IsPrefix(entry, n)

\* the entry a step of join was called for: last'.entry is entry/fileid as pasted
JoinStep == last' # last /\ last'.op = "join"

JoinedEntry == LStrip(normalize_resource_name(last'.entry, TRUE, <<SL>>), SL)

\* C13 as stated: join does not look the entry up, so it succeeds whatever the
\* relativeId, and a missing entry shows only when the pointer is opened.
C13_JoinAsStated == last.op = "join" => last.res = "zip"

\* C13: join makes a pointer on the same archive handle for the normalized
\* entry/relativeId and validates it as the constructor does: when the archive has
\* no such member and no member under such a directory, join raises IOError and
\* makes no pointer.
C13_JoinValidates ==
  [][JoinStep =>
       /\ zfiles' = zfiles
       /\ IF InArchive(last'.zipfile, JoinedEntry)
          THEN /\ last'.res = "zip"
               /\ ptrs' = ptrs \cup {[zipfile |-> last'.zipfile, entry |-> JoinedEntry]}
          ELSE /\ last'.res = "IOError"
               /\ ptrs' = ptrs]_vars

\* a join that failed on a relativeId naming nothing, and a pointer that shares
\* its handle with the one it was joined from
C13_Witness ==
  /\ last.op = "join"
  /\ last.res = "IOError"
  /\ \E p, q \in ptrs : p # q /\ p.zipfile = q.zipfile /\ q.entry = p.entry \o <<"b">>

\* ------------------------------------------------------------ path pointers at large
MaxPtrs == 2

C_DIR == <<"c">>
C_A_TXT_GZ == <<"c", SL>> \o A_TXT_GZ

\* /d1 holds a.txt, the archive a.zip (member a/b) and, in some worlds, a.txt.gz and
\* c/a.txt.gz; /bad.zip is no archive
PtrWorld(more) ==
  [MakeFS({pathjoin(D1, A_TXT)} \cup more,
          [p \in {pathjoin(D1, A_ZIP), BAD} |->
             IF p = BAD THEN Corrupt ELSE Archive({A_B})])
   EXCEPT !.data = Contents({pathjoin(D1, A_TXT)} \cup more, "o")]

PtrWorlds ==
  {PtrWorld(more) : more \in SUBSET {pathjoin(D1, A_TXT_GZ), pathjoin(D1, C_A_TXT_GZ)}}

\* the arguments of the calls
PtrNames == {A_TXT, A_TXT_GZ, C_DIR, C_A_TXT_GZ, A_B, A_ZIP}
PtrPaths == {D1, pathjoin(D1, A_TXT_GZ), pathjoin(D1, A_XYZ)}
PtrZips == {pathjoin(D1, A_ZIP), BAD}
PtrEntries == {A_B, A_DIR, <<"a">>}
FileIds == {A_TXT_GZ, <<"b">>}

\* the record of a call: its argument (a name, a path, an entry, a fileid), the
\* pointer made (or the exception raised in its place) or opened, and what
\* reading the opened stream gave
PtrCalled(op, arg, ptr, res) == [op |-> op, arg |-> arg, ptr |-> ptr, res |-> res]

NoStream == Stream("none", NoBytes)

InitPtr ==
  /\ fs \in PtrWorlds
  /\ path = InitialPath
  /\ ptrs = {}
  /\ last = PtrCalled("none", <<>>, Pointer("none", <<>>, <<>>), NoStream)
  /\ cache = <<>>
  /\ zfiles = <<>>
  /\ raw = <<>>
  /\ url = <<>>
  /\ calls = 0

\* what a call that makes a pointer leaves behind
Made(op, arg, made) ==
  /\ last' = PtrCalled(op, arg, made, NoStream)
  /\ ptrs' = IF IsPointer(made) THEN ptrs \cup {made} ELSE ptrs

\* find(resource_name)
PtrFind(resource_name) ==
  /\ Cardinality(ptrs) < MaxPtrs
  /\ Made("find", resource_name, find(resource_name, DefaultPaths).res)
  /\ UNCHANGED <<raw, url, calls, fs, path, cache, zfiles>>

\* FileSystemPathPointer(_path), GzipFileSystemPathPointer(_path)
PtrNewFs(kind, _path) ==
  /\ Cardinality(ptrs) < MaxPtrs
  /\ Made("new", _path, FileSystemPathPointer(kind, _path))
  /\ UNCHANGED <<raw, url, calls, fs, path, cache, zfiles>>

\* ZipFilePathPointer(zipfile, entry)
PtrNewZip(zipfile, entry) ==
  /\ Cardinality(ptrs) < MaxPtrs
  /\ Made("new", entry, ZipFilePathPointer(zipfile, entry))
  /\ UNCHANGED <<raw, url, calls, fs, path, cache, zfiles>>

\* FileSystemPathPointer.join(fileid) (GzipFileSystemPathPointer inherits it),
\* ZipFilePathPointer.join(fileid)
Join(ptr, fileid) ==
  IF ptr.kind = "zip" THEN PointerInto(ptr.path, ptr.entry \o <<SL>> \o fileid)
  ELSE FileSystemPathPointer("fs", pathjoin(ptr.path, fileid))

PtrJoin(ptr, fileid) ==
  /\ Cardinality(ptrs) < MaxPtrs
  /\ Made("join", fileid, Join(ptr, fileid))
  /\ UNCHANGED <<raw, url, calls, fs, path, cache, zfiles>>

\* ptr.open().read() on a FileSystemPathPointer or a GzipFileSystemPathPointer
PtrOpenFs(ptr) ==
  /\ ptr.kind \in {"fs", "gzfs"}
  /\ last' = PtrCalled("open", <<>>, ptr, Read(PointerOpen(ptr)))
  /\ UNCHANGED <<raw, url, calls, fs, path, cache, zfiles, ptrs>>

NextPtr ==
  \/ \E resource_name \in PtrNames : PtrFind(resource_name)
  \/ \E kind \in {"fs", "gzfs"}, _path \in PtrPaths : PtrNewFs(kind, _path)
  \/ \E zipfile \in PtrZips, entry \in PtrEntries : PtrNewZip(zipfile, entry)
  \/ \E ptr \in ptrs, fileid \in FileIds : PtrJoin(ptr, fileid)
  \/ \E ptr \in ptrs : PtrOpenFs(ptr)

SpecPtr == InitPtr /\ [][NextPtr]_vars

\* the pointed-to file holds gzip-compressed bytes
IsGzipped(ptr) == ptr.path \in fs.files /\ fs.data[<<ptr.path, <<>>>>].gz

\* C12: whatever way a file system pointer was obtained (find, the constructor,
\* join on a directory pointer), reading what its open() returns gives the
\* decompressed content whenever the file it points to is gzip-compressed.
C12_OpenDecompresses ==
  (last.op = "open" /\ IsGzipped(last.ptr)) =>
     (last.res.kind = "bytes" /\ ~last.res.data.gz)

\* what a pointer refers to was there when it was made: the path of a file system
\* pointer, the member or the directory of members of an archive pointer
RefersToExisting(ptr) ==
  IF ptr.kind = "zip"
  THEN \/ ptr.entry = <<>>
       \/ ptr.entry \in fs.zips[ptr.path]
       \/ /\ ptr.entry[Len(ptr.entry)] = SL
          /\ \E n \in fs.zips[ptr.path] : IsPrefix(ptr.entry, n)
  ELSE ptr.path \in fs.files \cup fs.dirs

\* C14: every pointer that was constructed (by find, by join, by a constructor)
\* refers to something that exists: the absolute path of a file system pointer, the
\* entry of an archive pointer as a member or, ending in '/', as a prefix of one;
\* and a constructor or join that makes no pointer fails with IOError.
C14_PointerExistence ==
  /\ \A ptr \in ptrs : RefersToExisting(ptr)
  /\ (last.op \in {"new", "join"} /\ ~IsPointer(last.ptr)) => last.ptr.kind = "IOError"

\* C17: when the name given to find is exactly the name of an archive (it ends in
\* the .zip segment, the entry is empty) and that archive is there under a directory
\* root of the search path, find returns the archive pointer with the empty entry.
C17_ArchiveRoot ==
  (/\ last.op = "find"
   /\ EndsWith(last.arg, ZIPEXT)
   /\ \E i \in 1..Len(path) : isdir(path[i]) /\ pathjoin(path[i], last.arg) \in DOMAIN fs.zips)
  => \E i \in 1..Len(path) : last.ptr = Pointer("zip", pathjoin(path[i], last.arg), <<>>)

\* ------------------------------------------------------------ the archive component of a name
\* the names: "zip" followed by "per" spells zipper
SplitTokens == {"a", SL, DOT, "zip", "per"}

SplitNames == StringsUpTo(SplitTokens, MaxLen)

\* the record of the match: the normalized name and the groups of the match
Matched(resource_name, zs) ==
  [op |-> "match", name |-> resource_name, has |-> zs.has,
   zipfile |-> zs.zipfile, zipentry |-> zs.zipentry]

InitSplit ==
  /\ raw \in SplitNames
  /\ last = [op |-> "none", name |-> <<>>, has |-> FALSE, zipfile |-> <<>>, zipentry |-> <<>>]
  /\ url = <<>>
  /\ calls = 0
  /\ fs = <<>>
  /\ path = <<>>
  /\ cache = <<>>
  /\ zfiles = <<>>
  /\ ptrs = {}

\* the first lines of find: the name is normalized and matched against the pattern
MatchZip ==
  /\ last' = Matched(normalize_resource_name(raw, TRUE, <<>>),
                     ZipSplit(normalize_resource_name(raw, TRUE, <<>>)))
  /\ UNCHANGED <<raw, url, calls, fs, path, cache, zfiles, ptrs>>

NextSplit == MatchZip

SpecSplit == InitSplit /\ [][NextSplit]_vars

\* the segments of a name that end in .zip, by position
ZipSegments(name) == {k \in 1..Len(Split(name, SL)) : EndsWith(Split(name, SL)[k], ZIPEXT)}

FirstZipSegment(name) == CHOOSE k \in ZipSegments(name) : \A j \in ZipSegments(name) : k <= j

\* C15: find splits the name at its first segment ending in '.zip': the archive is
\* the name up to and including that segment, the entry all that follows; a name
\* with no such segment (a.zipper has none) has no archive component.
C15_FirstZipSegment ==
  last.op = "match" =>
    IF ZipSegments(last.name) = {} THEN ~last.has
    ELSE /\ last.has
         /\ last.zipfile = JoinWith(SubSeq(Split(last.name, SL), 1, FirstZipSegment(last.name)), SL)
         /\ last.zipentry = JoinWith(SubSeq(Split(last.name, SL), FirstZipSegment(last.name) + 1,
                                            Len(Split(last.name, SL))), SL)

\* ------------------------------------------------------------ concurrent readers of one handle
MaxCallers == 2

Callers == 1..MaxCallers

\* one OpenOnDemandZipFile on /z.zip (members a/b and c.gz) and the pointers into it;
\* fp is 0 for None, or the number of the caller whose open() made the file object,
\* and fds holds the file objects that are open.  last[t] is where caller t is in
\* read (pc), the name it reads, the file object its ZipFile.read works on, and
\* what the call gave.
Idle == [pc |-> "idle", name |-> <<>>, fd |-> 0, res |-> ""]

InitRace ==
  /\ fs = MakeFS({}, Archives(Absent, Absent, Absent, Archive({A_B, C_GZ})))
  /\ zfiles = <<[filename |-> ZR, fp |-> 0, fds |-> {}]>>
  /\ ptrs = {[zipfile |-> 1, entry |-> e] : e \in {A_B, C_GZ}}
  /\ last = [t \in Callers |-> Idle]
  /\ path = InitialPath
  /\ cache = <<>>
  /\ raw = <<>>
  /\ url = <<>>
  /\ calls = 0

\* caller t goes on to pc, with the handle as given
Goes(t, now, zf) ==
  /\ last' = [last EXCEPT ![t] = now]
  /\ zfiles' = <<zf>>
  /\ UNCHANGED <<raw, url, calls, fs, path, cache, ptrs>>

\* ZipFilePathPointer.open: data = self._zipfile.read(self._entry)
CallRead(t, p) ==
  /\ last[t].pc = "idle"
  /\ Goes(t, [last[t] EXCEPT !.pc = "assert", !.name = p.entry], zfiles[1])

\* assert self.fp is None
ReadAssert(t) ==
  /\ last[t].pc = "assert"
  /\ Goes(t, IF zfiles[1].fp = 0 THEN [last[t] EXCEPT !.pc = "open"]
             ELSE [last[t] EXCEPT !.pc = "done", !.res = "AssertionError"], zfiles[1])

\* self.fp = open(self.filename, 'rb')
ReadOpen(t) ==
  /\ last[t].pc = "open"
  /\ Goes(t, [last[t] EXCEPT !.pc = "read"],
          [zfiles[1] EXCEPT !.fp = t, !.fds = @ \cup {t}])

\* value = zipfile.ZipFile.read(self, name), its start: the archive must be open
\* and have the member; the read then works on the file object self.fp is now
ReadBegin(t) ==
  /\ last[t].pc = "read"
  /\ Goes(t, IF zfiles[1].fp = 0 THEN [last[t] EXCEPT !.pc = "done", !.res = "ValueError"]
             ELSE IF last[t].name \notin fs.zips[zfiles[1].filename]
             THEN [last[t] EXCEPT !.pc = "done", !.res = "KeyError"]
             ELSE [last[t] EXCEPT !.pc = "reading", !.fd = zfiles[1].fp], zfiles[1])

\* value = zipfile.ZipFile.read(self, name), its end: the bytes, unless the file
\* object was closed under it
ReadEnd(t) ==
  /\ last[t].pc = "reading"
  /\ Goes(t, IF last[t].fd \in zfiles[1].fds THEN [last[t] EXCEPT !.pc = "close"]
             ELSE [last[t] EXCEPT !.pc = "done", !.res = "ValueError"], zfiles[1])

\* self.close(); return value
ReadClose(t) ==
  /\ last[t].pc = "close"
  /\ Goes(t, [last[t] EXCEPT !.pc = "done", !.res = "bytes"],
          [zfiles[1] EXCEPT !.fp = 0, !.fds = @ \ {zfiles[1].fp}])

NextRace ==
  \/ \E t \in Callers, p \in ptrs : CallRead(t, p)
  \/ \E t \in Callers : ReadAssert(t)
  \/ \E t \in Callers : ReadOpen(t)
  \/ \E t \in Callers : ReadBegin(t)
  \/ \E t \in Callers : ReadEnd(t)
  \/ \E t \in Callers : ReadClose(t)

SpecRace == InitRace /\ [][NextRace]_vars

\* caller t has opened the handle and not yet closed it
Reading(t) == last[t].pc \in {"read", "reading", "close"}

\* C16: the open/read/close sequences of concurrent callers on one shared handle are
\* serialized: no caller opens the handle while another caller's read is in
\* progress, and every read returns the bytes of its entry.
C16_Serialized ==
  /\ \A t, u \in Callers : (t # u /\ Reading(t)) => ~Reading(u)
  /\ \A t \in Callers : last[t].pc = "done" => last[t].res = "bytes"

====
